---- MODULE Spec2Model ----
(***************************************************************************)
(* Model of module_1_meteo_api.py: the Open-Meteo fetcher                  *)
(* (get_data_meteo_api), the monthly aggregation (transform_weather_data), *)
(* the per-year line plot (plot_variable / plot_weather_data) and the      *)
(* per-city loop (main).                                                   *)
(*                                                                         *)
(* Numbers are exact: a float is modelled as a reduced fraction            *)
(* [num, den], so mean = sum / count is decided without rounding.          *)
(***************************************************************************)
EXTENDS Integers, Sequences, FiniteSets, TLC

VARIABLES
    pc,                 \* main: position in the per-city loop
    city_idx,           \* main: index into COORDINATES of the current city
    city_data,          \* main: value returned by get_data_meteo_api
    pivots,             \* main: the three pivot tables of the current city
    events,             \* main: what has been called so far, in order
    tpc,                \* transform on its own: "call", "returned", "reordered"
    api_response_json,  \* transform on its own: the argument
    transformed,        \* transform on its own: outcome of the call
    permuted_json,      \* transform on its own: a row permutation of the argument
    transformed_perm,   \* transform on its own: outcome on the permutation
    ppc,                \* plot_variable on its own: "call", "drawn"
    data_columns,       \* plot_variable on its own: data.columns, in table order
    lines               \* plot_variable on its own: the ax.plot calls made

main_vars == <<pc, city_idx, city_data, pivots, events>>
transform_vars ==
    <<tpc, api_response_json, transformed, permuted_json, transformed_perm>>
plot_vars == <<ppc, data_columns, lines>>
vars == <<main_vars, transform_vars, plot_vars>>

(***************************************************************************)
(* Bounds of the model.                                                    *)
(***************************************************************************)
\* longest list of daily observations fed to transform_weather_data
MaxDays == 3
\* most year columns of a table handed to plot_variable
MaxYears == 4

(***************************************************************************)
(* Python values.                                                          *)
(***************************************************************************)
None == [none |-> TRUE]
NaN == [nan |-> TRUE]
NaT == [nat |-> TRUE]
Num(n, d) == [nan |-> FALSE, num |-> n, den |-> d]

Abs(x) == IF x < 0 THEN -x ELSE x

RECURSIVE GCD(_, _)
GCD(a, b) == IF b = 0 THEN a ELSE GCD(b, a % b)

\* n / d as a float: the reduced fraction (d > 0)
Div(n, d) == LET g == GCD(Abs(n), d) IN Num(n \div g, d \div g)

Range(s) == {s[i] : i \in 1..Len(s)}

SetMin(S) == CHOOSE x \in S : \A y \in S : x <= y

\* sorted(S): ascending list of a set of integers
RECURSIVE Sorted(_)
Sorted(S) ==
    IF S = {} THEN <<>>
    ELSE LET m == SetMin(S) IN <<m>> \o Sorted(S \ {m})

\* list order of first appearance, duplicates removed
RECURSIVE Unique(_)
Unique(s) ==
    IF s = <<>> THEN <<>>
    ELSE LET rest == Unique(SelectSeq(Tail(s), LAMBDA x : x # Head(s)))
         IN <<Head(s)>> \o rest

(***************************************************************************)
(* Configuration (module constants).                                       *)
(***************************************************************************)
COORDINATES == <<"Madrid", "London", "Rio">>

VARIABLES_DAILY ==
    <<"temperature_2m_mean", "precipitation_sum", "wind_speed_10m_max">>

\* response.status_code == 200
HTTP_OK == 200

(***************************************************************************)
(* get_data_meteo_api.  What requests.get produced is the input:           *)
(*   [transport |-> "error"]                a RequestException was raised  *)
(*   [transport |-> "ok", status_code, decodes, payload]   a response     *)
(* decodes = FALSE is a body that is not JSON: response.json() then raises *)
(* requests.exceptions.JSONDecodeError, a RequestException, which the      *)
(* except clause catches.                                                  *)
(* The result is [raised, value].                                          *)
(***************************************************************************)
Returned(v) == [raised |-> "no", value |-> v]
Raised(e) == [raised |-> e, value |-> None]

\* a fetcher that never looks at the status
StatusOkAlways(response) == TRUE

\* if response.status_code == 200
StatusOk(response) == response.status_code = HTTP_OK

ResponseJson(response) ==
    IF response.decodes THEN Returned(response.payload)
    ELSE Raised("RequestException")

GetDataMeteoApi(outcome) ==
    LET try ==
            IF outcome.transport # "ok" THEN Raised("RequestException")
            ELSE IF StatusOk(outcome) THEN ResponseJson(outcome)
            ELSE Returned(None)
    IN  IF try.raised = "RequestException" THEN Returned(None) ELSE try

(***************************************************************************)
(* transform_weather_data.                                                 *)
(* A date string is <<year, month, day>>; a JSON null is <<>>.            *)
(***************************************************************************)
NullDate == <<>>

IsLeap(y) == (y % 4 = 0 /\ y % 100 # 0) \/ y % 400 = 0

DaysInMonth(y, m) ==
    IF m = 2 THEN (IF IsLeap(y) THEN 29 ELSE 28)
    ELSE IF m \in {4, 6, 9, 11} THEN 30 ELSE 31

IsCalendarDate(s) ==
    /\ Len(s) = 3
    /\ s[2] \in 1..12
    /\ s[3] \in 1..DaysInMonth(s[1], s[2])

\* pd.to_datetime of one element: None becomes NaT, a calendar date a timestamp
ToDatetimeOne(s) ==
    IF s = NullDate THEN NaT
    ELSE [nat |-> FALSE, year |-> s[1], month |-> s[2], day |-> s[3]]

\* pd.to_datetime(df["date"]) with errors="raise": one bad element fails the call
ToDatetimeRaises(col) ==
    \E i \in 1..Len(col) : col[i] # NullDate /\ ~IsCalendarDate(col[i])

\* df["date"].dt.year, .dt.month: NaN for NaT
DtYear(ts) == IF ts.nat THEN NaN ELSE Num(ts.year, 1)
DtMonth(ts) == IF ts.nat THEN NaN ELSE Num(ts.month, 1)

DailyKeys == <<"time">> \o VARIABLES_DAILY

\* daily_data[...] of the four columns: a missing key is a KeyError
MissingKey(json) ==
    \/ "daily" \notin DOMAIN json
    \/ \E i \in 1..Len(DailyKeys) : DailyKeys[i] \notin DOMAIN json.daily

\* pd.DataFrame({...}): "All arrays must be of the same length"
LengthMismatch(daily) ==
    \E i \in 1..Len(DailyKeys) : Len(daily[DailyKeys[i]]) # Len(daily.time)

\* df_numeric: the rows after to_datetime, year/month extraction and drop(date)
DfNumeric(daily) ==
    [i \in 1..Len(daily.time) |->
        LET ts == ToDatetimeOne(daily.time[i])
        IN  [temperature_2m_mean |-> daily.temperature_2m_mean[i],
             precipitation_sum   |-> daily.precipitation_sum[i],
             wind_speed_10m_max  |-> daily.wind_speed_10m_max[i],
             year  |-> DtYear(ts),
             month |-> DtMonth(ts)]]

RECURSIVE SumSeq(_)
SumSeq(s) == IF s = <<>> THEN 0 ELSE Head(s) + SumSeq(Tail(s))

RECURSIVE MaxSeq(_)
MaxSeq(s) ==
    IF Len(s) = 1 THEN s[1]
    ELSE LET r == MaxSeq(Tail(s)) IN IF s[1] >= r THEN s[1] ELSE r

\* a mean that forgets to divide; a max that takes the group's last row
AggMeanAsSum(s) == Num(SumSeq(s), 1)
AggMaxAsLast(s) == Num(s[Len(s)], 1)

\* GroupBy.mean / .sum / .max of one column of one group (a non-empty list)
AggMean(s) == Div(SumSeq(s), Len(s))
AggSum(s) == Num(SumSeq(s), 1)
AggMax(s) == Num(MaxSeq(s), 1)

Agg(how, s) ==
    CASE how = "mean" -> AggMean(s)
      [] how = "sum"  -> AggSum(s)
      [] how = "max"  -> AggMax(s)

\* group keys <<year, month>> of the rows; dropna=True leaves NaN keys out
KeyOf(row) == <<row.year.num, row.month.num>>
HasKey(row) == ~row.year.nan /\ ~row.month.nan

KeyLess(a, b) == a[1] < b[1] \/ (a[1] = b[1] /\ a[2] < b[2])

RECURSIVE SortKeys(_)
SortKeys(K) ==
    IF K = {} THEN <<>>
    ELSE LET m == CHOOSE k \in K : \A j \in K : j = k \/ KeyLess(k, j)
         IN  <<m>> \o SortKeys(K \ {m})

GroupKeysUnsorted(rows) ==
    Unique([i \in 1..Len(SelectSeq(rows, HasKey)) |->
                KeyOf(SelectSeq(rows, HasKey)[i])])

\* groupby(["year", "month"]), sort=True: the distinct keys in ascending order
GroupKeys(rows) == SortKeys(Range(GroupKeysUnsorted(rows)))

GroupRows(rows, k) == SelectSeq(rows, LAMBDA r : HasKey(r) /\ KeyOf(r) = k)

ColumnOf(rows, name) == [i \in 1..Len(rows) |-> rows[i][name]]

\* df_numeric.groupby(["year", "month"]).<how>().reset_index()
GroupByAgg(rows, how) ==
    LET keys == GroupKeys(rows)
    IN  [g \in 1..Len(keys) |->
            LET grp == GroupRows(rows, keys[g])
            IN  [year  |-> keys[g][1],
                 month |-> keys[g][2],
                 temperature_2m_mean |-> Agg(how, ColumnOf(grp, "temperature_2m_mean")),
                 precipitation_sum   |-> Agg(how, ColumnOf(grp, "precipitation_sum")),
                 wind_speed_10m_max  |-> Agg(how, ColumnOf(grp, "wind_speed_10m_max"))]]

\* a pivot that fills the holes of the grid (fill_value=0)
PivotFillZero(frame, m, y, values) ==
    IF \E g \in 1..Len(frame) : frame[g].month = m /\ frame[g].year = y
    THEN LET g == CHOOSE g \in 1..Len(frame) :
                      frame[g].month = m /\ frame[g].year = y
         IN  frame[g][values]
    ELSE Num(0, 1)

\* one cell of the pivot: the group's value, NaN where the frame has no such row
PivotCell(frame, m, y, values) ==
    IF \E g \in 1..Len(frame) : frame[g].month = m /\ frame[g].year = y
    THEN LET g == CHOOSE g \in 1..Len(frame) :
                      frame[g].month = m /\ frame[g].year = y
         IN  frame[g][values]
    ELSE NaN

\* the index / the columns of a pivot: the distinct labels, sorted
PivotAxis(labels) == Sorted(Range(labels))

\* frame.pivot(index="month", columns="year", values=values)
Pivot(frame, values) ==
    LET index   == PivotAxis(ColumnOf(frame, "month"))
        columns == PivotAxis(ColumnOf(frame, "year"))
    IN  [index   |-> index,
         columns |-> columns,
         cell    |-> [c \in Range(index) \X Range(columns) |->
                         PivotCell(frame, c[1], c[2], values)]]

TransformWeatherData(json) ==
    IF MissingKey(json) THEN Raised("KeyError")
    ELSE IF LengthMismatch(json.daily) THEN Raised("ValueError")
    ELSE IF ToDatetimeRaises(json.daily.time) THEN Raised("DateParseError")
    ELSE LET df_numeric == DfNumeric(json.daily)
             monthly_mean_data == GroupByAgg(df_numeric, "mean")
             monthly_sum_data  == GroupByAgg(df_numeric, "sum")
             monthly_max_data  == GroupByAgg(df_numeric, "max")
         IN  Returned(
                [temperature   |-> Pivot(monthly_mean_data, "temperature_2m_mean"),
                 precipitation |-> Pivot(monthly_sum_data, "precipitation_sum"),
                 windspeed     |-> Pivot(monthly_max_data, "wind_speed_10m_max")])

(***************************************************************************)
(* plot_variable and plot_weather_data.  A line is what one ax.plot call   *)
(* is given: the year it is labelled with, the position norm(i) on the    *)
(* colour ramp (0 = lightest, 1 = darkest) and the colour's index in the   *)
(* ramp's lookup table.                                                    *)
(***************************************************************************)
\* entries of a matplotlib colour map's lookup table
LUT_SIZE == 256

RECURSIVE InsertSorted(_, _)
InsertSorted(x, s) ==
    IF s = <<>> THEN <<x>>
    ELSE IF x <= Head(s) THEN <<x>> \o s
    ELSE <<Head(s)>> \o InsertSorted(x, Tail(s))

RECURSIVE SortList(_)
SortList(s) == IF s = <<>> THEN <<>> ELSE InsertSorted(Head(s), SortList(Tail(s)))

\* the years taken in the order of the table's columns
SortedYearsAsColumns(columns) == columns

\* years = sorted(data.columns)
SortedYears(columns) == SortList(columns)

\* mcolors.Normalize(vmin, vmax)(i); vmin = vmax maps everything to 0
Normalize(vmin, vmax, i) ==
    IF vmin = vmax THEN Num(0, 1) ELSE Div(i - vmin, vmax - vmin)

\* cmap(x) for a float x in [0, 1]: int(x * N), and x = 1 is the last entry
Cmap(x) ==
    IF x.num >= x.den THEN LUT_SIZE - 1 ELSE (x.num * LUT_SIZE) \div x.den

\* the ax.plot calls of plot_variable, in the order they are made
PlotVariable(columns) ==
    LET years == SortedYears(columns)
        vmax  == Len(years) - 1
    IN  [k \in 1..Len(years) |->
            LET position == Normalize(0, vmax, k - 1)
            IN  [label |-> years[k], position |-> position, color |-> Cmap(position)]]

\* the figure of plot_weather_data; a pivot that is None has no .columns
PlotWeatherData(tables, city_name) ==
    IF tables = None THEN Raised("AttributeError")
    ELSE Returned([suptitle |-> city_name,
                   axs |-> <<PlotVariable(tables.temperature.columns),
                             PlotVariable(tables.precipitation.columns),
                             PlotVariable(tables.windspeed.columns)>>])

(***************************************************************************)
(* transform_weather_data called on its own: the argument is any payload   *)
(* of at most MaxDays daily rows, or one of a few payloads of wrong shape. *)
(***************************************************************************)
DateStrings ==
    {<<2020, 1, 1>>, <<2020, 3, 1>>, <<2021, 1, 1>>, <<2020, 2, 30>>, NullDate}

\* <<temperature_2m_mean, precipitation_sum, wind_speed_10m_max>> of one day
Readings == {<<10, 2, 15>>, <<12, 0, 20>>, <<11, 1, 18>>}

Observations == DateStrings \X Readings

ObservationLists == UNION {[1..n -> Observations] : n \in 1..MaxDays}

\* the API's payload of a list of observations: parallel arrays under "daily"
ToJson(obs) ==
    [daily |->
        [time                |-> [i \in 1..Len(obs) |-> obs[i][1]],
         temperature_2m_mean |-> [i \in 1..Len(obs) |-> obs[i][2][1]],
         precipitation_sum   |-> [i \in 1..Len(obs) |-> obs[i][2][2]],
         wind_speed_10m_max  |-> [i \in 1..Len(obs) |-> obs[i][2][3]]]]

\* the two days of January 2020 of the end-to-end scenario
ExampleJson ==
    ToJson(<< <<<<2020, 1, 1>>, <<10, 2, 15>>>>, <<<<2020, 1, 2>>, <<12, 0, 20>>>> >>)

WithoutDaily == [error |-> TRUE, reason |-> "bad request"]

WithoutKey(json, k) ==
    [daily |-> [x \in DOMAIN json.daily \ {k} |-> json.daily[x]]]

WithShortArray(json, k) ==
    [daily |-> [json.daily EXCEPT ![k] = SubSeq(@, 1, Len(@) - 1)]]

MalformedPayloads ==
    {WithoutDaily}
    \cup {WithoutKey(ExampleJson, DailyKeys[i]) : i \in 1..Len(DailyKeys)}
    \cup {WithShortArray(ExampleJson, DailyKeys[i]) : i \in 1..Len(DailyKeys)}

WellShaped(json) == ~MissingKey(json) /\ ~LengthMismatch(json.daily)

Perms(n) ==
    {p \in [1..n -> 1..n] : \A i, j \in 1..n : p[i] = p[j] => i = j}

\* the same rows in another order: the four arrays permuted together
Permute(json, p) ==
    [daily |-> [k \in DOMAIN json.daily |->
                   [i \in 1..Len(json.daily[k]) |-> json.daily[k][p[i]]]]]

NotCalled == [called |-> FALSE]

TransformIdle ==
    /\ tpc = "off"
    /\ api_response_json = None
    /\ transformed = NotCalled
    /\ permuted_json = None
    /\ transformed_perm = NotCalled

MainIdle ==
    /\ pc = "off"
    /\ city_idx = 0
    /\ city_data = None
    /\ pivots = None
    /\ events = <<>>

PlotIdle ==
    /\ ppc = "off"
    /\ data_columns = <<>>
    /\ lines = <<>>

TransformInit ==
    /\ tpc = "call"
    /\ api_response_json \in
            {ToJson(o) : o \in ObservationLists} \cup {ExampleJson}
                \cup MalformedPayloads
    /\ transformed = NotCalled
    /\ permuted_json = None
    /\ transformed_perm = NotCalled
    /\ MainIdle
    /\ PlotIdle

TransformCall ==
    /\ tpc = "call"
    /\ transformed' = TransformWeatherData(api_response_json)
    /\ tpc' = "returned"
    /\ UNCHANGED <<api_response_json, permuted_json, transformed_perm>>
    /\ UNCHANGED <<main_vars, plot_vars>>

TransformReordered ==
    /\ tpc = "returned"
    /\ WellShaped(api_response_json)
    /\ \E p \in Perms(Len(api_response_json.daily.time)) :
            /\ permuted_json' = Permute(api_response_json, p)
            /\ transformed_perm' = TransformWeatherData(permuted_json')
    /\ tpc' = "reordered"
    /\ UNCHANGED <<api_response_json, transformed>>
    /\ UNCHANGED <<main_vars, plot_vars>>

TransformNext == TransformCall \/ TransformReordered

SpecTransform == TransformInit /\ [][TransformNext]_vars

(***************************************************************************)
(* plot_variable called on its own, on the year columns of any table of at *)
(* most MaxYears distinct years, in any order.                             *)
(***************************************************************************)
\* INITIAL_DATE = "2010-01-01"
INITIAL_YEAR == 2010

YearLabels == INITIAL_YEAR..(INITIAL_YEAR + MaxYears - 1)

ColumnLists ==
    {c \in UNION {[1..n -> YearLabels] : n \in 0..MaxYears} :
        \A i, j \in 1..Len(c) : c[i] = c[j] => i = j}

PlotInit ==
    /\ ppc = "call"
    /\ data_columns \in ColumnLists
    /\ lines = <<>>
    /\ MainIdle
    /\ TransformIdle

PlotVariableCall ==
    /\ ppc = "call"
    /\ lines' = PlotVariable(data_columns)
    /\ ppc' = "drawn"
    /\ UNCHANGED data_columns
    /\ UNCHANGED <<main_vars, transform_vars>>

PlotNext == PlotVariableCall

SpecPlot == PlotInit /\ [][PlotNext]_vars

(***************************************************************************)
(* main: the loop over COORDINATES.  What the network answers and whether  *)
(* the plotting backend can show a figure are inputs.  An exception that   *)
(* nothing catches ends main ("crashed").                                  *)
(***************************************************************************)
NullDateJson ==
    ToJson(<< <<<<2020, 1, 1>>, <<10, 2, 15>>>>, <<NullDate, <<12, 0, 20>>>> >>)

BadDateJson ==
    ToJson(<< <<<<2020, 1, 1>>, <<10, 2, 15>>>>, <<<<2020, 2, 30>>, <<12, 0, 20>>>> >>)

MissingFieldJsons ==
    {WithoutDaily, WithoutKey(ExampleJson, "wind_speed_10m_max")}

MismatchedJsons == {WithShortArray(ExampleJson, "precipitation_sum")}

Response(status, payload) ==
    [transport |-> "ok", status_code |-> status, decodes |-> TRUE,
     payload |-> payload]

NotJsonResponse(status) ==
    [transport |-> "ok", status_code |-> status, decodes |-> FALSE,
     payload |-> None]

FetchOutcomes ==
    {[transport |-> "error"]}
    \cup {Response(HTTP_OK, p) :
            p \in {ExampleJson, NullDateJson, BadDateJson}
                    \cup MissingFieldJsons \cup MismatchedJsons}
    \cup {NotJsonResponse(HTTP_OK)}
    \cup {Response(st, p) : st \in {201, 404, 500}, p \in {ExampleJson, WithoutDaily}}

CityName == COORDINATES[city_idx]

MainInit ==
    /\ pc = "fetch"
    /\ city_idx = 1
    /\ city_data = None
    /\ pivots = None
    /\ events = <<>>
    /\ TransformIdle
    /\ PlotIdle

\* the for loop moves to the next city, or ends after the last one
NextCity ==
    IF city_idx < Len(COORDINATES)
    THEN pc' = "fetch" /\ city_idx' = city_idx + 1
    ELSE pc' = "done" /\ city_idx' = city_idx

\* a loop without the None guard
SkipCityNever(data) == FALSE

\* if city_data is None: ... continue
SkipCity(data) == data = None

\* a loop that plots right after the fetch
StepAfterFetchAsPlot == "plot"

\* Step 2 follows Step 1
StepAfterFetch == "transform"

MainFetch ==
    /\ pc = "fetch"
    /\ \E outcome \in FetchOutcomes :
        LET r == GetDataMeteoApi(outcome)
        IN  /\ events' = Append(events,
                    [step |-> "fetch", city |-> CityName,
                     outcome |-> outcome, result |-> r])
            /\ IF r.raised # "no"
               THEN pc' = "crashed" /\ city_data' = city_data
               ELSE pc' = "check" /\ city_data' = r.value
    /\ UNCHANGED <<city_idx, pivots>>
    /\ UNCHANGED <<transform_vars, plot_vars>>

MainCheck ==
    /\ pc = "check"
    /\ IF SkipCity(city_data)
       THEN NextCity
       ELSE pc' = StepAfterFetch /\ city_idx' = city_idx
    /\ UNCHANGED <<city_data, pivots, events>>
    /\ UNCHANGED <<transform_vars, plot_vars>>

MainTransform ==
    /\ pc = "transform"
    /\ LET r == TransformWeatherData(city_data)
       IN  /\ events' = Append(events,
                    [step |-> "transform", city |-> CityName, result |-> r])
           /\ IF r.raised # "no"
              THEN pc' = "crashed" /\ pivots' = pivots
              ELSE pc' = "plot" /\ pivots' = r.value
    /\ UNCHANGED <<city_idx, city_data>>
    /\ UNCHANGED <<transform_vars, plot_vars>>

MainPlot ==
    /\ pc = "plot"
    /\ \E backend \in {"shows", "fails"} :
        LET r == IF backend = "fails" THEN Raised("BackendError")
                 ELSE PlotWeatherData(pivots, CityName)
        IN  /\ events' = Append(events,
                    [step |-> "plot", city |-> CityName, result |-> r])
            /\ IF r.raised # "no"
               THEN pc' = "crashed" /\ city_idx' = city_idx
               ELSE NextCity
    /\ UNCHANGED <<city_data, pivots>>
    /\ UNCHANGED <<transform_vars, plot_vars>>

Next == MainFetch \/ MainCheck \/ MainTransform \/ MainPlot

Spec == MainInit /\ [][Next]_vars

(***************************************************************************)
(* Properties of main.                                                     *)
(***************************************************************************)
CityIndex(c) == CHOOSE k \in 1..Len(COORDINATES) : COORDINATES[k] = c

EventsOf(step) == {i \in 1..Len(events) : events[i].step = step}

FetchFailedAt(i) ==
    /\ events[i].step = "fetch"
    /\ events[i].result = Returned(None)

FetchSucceededAt(i) ==
    /\ events[i].step = "fetch"
    /\ events[i].result.raised = "no"
    /\ events[i].result.value # None

StepFailedAt(i) ==
    /\ events[i].step \in {"transform", "plot"}
    /\ events[i].result.raised # "no"

StepSucceededAt(i, step) ==
    /\ events[i].step = step
    /\ events[i].result.raised = "no"

Ended == pc \in {"done", "crashed"}

LaterCitiesFetched(c) ==
    \A k \in (CityIndex(c) + 1)..Len(COORDINATES) :
        \E j \in EventsOf("fetch") : events[j].city = COORDINATES[k]

\* C1: a city whose fetch returned None gets no transform and no plot call,
\* and the very next thing main does is fetch the following city (or end
\* normally after the last one): the failed fetch never ends the run, and a
\* run that reaches its normal end has fetched every city.
C1_FetchFailureSkipsOnlyThatCity ==
    /\ \A i \in 1..Len(events) : FetchFailedAt(i) =>
          /\ \A j \in 1..Len(events) : events[j].city = events[i].city => j = i
          /\ IF i < Len(events)
             THEN /\ events[i + 1].step = "fetch"
                  /\ CityIndex(events[i + 1].city) = CityIndex(events[i].city) + 1
             ELSE \/ pc = "check" /\ CityName = events[i].city
                  \/ pc = "fetch" /\ city_idx = CityIndex(events[i].city) + 1
                  \/ pc = "done" /\ CityIndex(events[i].city) = Len(COORDINATES)
    /\ pc = "done" =>
          \A k \in 1..Len(COORDINATES) :
              \E j \in EventsOf("fetch") : events[j].city = COORDINATES[k]

\* Madrid's fetch failed, and London and Rio were still fetched and charted
C1_Witness ==
    /\ pc = "done"
    /\ \E i \in 1..Len(events) : FetchFailedAt(i) /\ events[i].city = "Madrid"
    /\ \A c \in {"London", "Rio"} :
          \E j \in 1..Len(events) : StepSucceededAt(j, "plot") /\ events[j].city = c

\* C2: get_data_meteo_api never raises; it returns None for every response
\* whose status is not 200 and for every transport error, and what it returns
\* otherwise is the decoded payload of a response with status 200.
C2_FetchNeverRaises ==
    \A i \in EventsOf("fetch") :
        LET o == events[i].outcome
            r == events[i].result
        IN  /\ r.raised = "no"
            /\ o.transport # "ok" => r.value = None
            /\ (o.transport = "ok" /\ o.status_code # 200) => r.value = None
            /\ r.value # None =>
                  /\ o.transport = "ok"
                  /\ o.status_code = 200
                  /\ r.value = o.payload

\* one run saw a transport error, a 404 carrying a payload, and a 200
C2_Witness ==
    /\ \E i \in EventsOf("fetch") : events[i].outcome.transport = "error"
    /\ \E i \in EventsOf("fetch") :
          /\ events[i].outcome.transport = "ok"
          /\ events[i].outcome.status_code = 404
          /\ events[i].outcome.payload = ExampleJson
    /\ \E i \in EventsOf("fetch") : events[i].result.value = ExampleJson

\* C5: when transform_weather_data or plot_weather_data fails for a city,
\* only that city is abandoned: the run does not end before every later
\* city has been fetched.
C5_StepFailureAbortsOnlyThatCity ==
    \A i \in 1..Len(events) :
        (StepFailedAt(i) /\ Ended) => LaterCitiesFetched(events[i].city)

InvalidShape(json) == MissingKey(json) \/ LengthMismatch(json.daily)

\* C6: a 200 response whose payload has the wrong shape ends like a failed
\* fetch: no chart for the city, no exception out of main, and the run goes
\* on to the later cities.
C6_MalformedPayloadSkipsCity ==
    \A i \in EventsOf("fetch") :
        (FetchSucceededAt(i) /\ InvalidShape(events[i].result.value)) =>
            /\ \A j \in EventsOf("plot") :
                  events[j].city = events[i].city => events[j].result.raised # "no"
            /\ ~(pc = "crashed" /\ CityName = events[i].city)
            /\ Ended => LaterCitiesFetched(events[i].city)

\* C9: the calls happen city by city in the order of COORDINATES and, within
\* a city, in the order fetch, transform, plot: a transform call directly
\* follows the successful fetch of its city, a plot call directly follows the
\* successful transform of its city, and the fetch of a city directly follows
\* the failed fetch or the finished plot of the city before it.
C9_StrictlySequential ==
    /\ \A i \in 1..Len(events) :
          LET e == events[i]
          IN  /\ e.step = "fetch" =>
                    IF i = 1 THEN e.city = COORDINATES[1]
                    ELSE /\ CityIndex(e.city) = CityIndex(events[i - 1].city) + 1
                         /\ FetchFailedAt(i - 1) \/ StepSucceededAt(i - 1, "plot")
              /\ e.step = "transform" =>
                    /\ i > 1
                    /\ FetchSucceededAt(i - 1)
                    /\ events[i - 1].city = e.city
              /\ e.step = "plot" =>
                    /\ i > 2
                    /\ StepSucceededAt(i - 1, "transform")
                    /\ events[i - 1].city = e.city
                    /\ FetchSucceededAt(i - 2)
                    /\ events[i - 2].city = e.city
    /\ pc = "transform" =>
          FetchSucceededAt(Len(events)) /\ events[Len(events)].city = CityName
    /\ pc = "plot" =>
          /\ StepSucceededAt(Len(events), "transform")
          /\ events[Len(events)].city = CityName

\* Madrid charted, London skipped, Rio charted
C9_Witness ==
    /\ pc = "done"
    /\ Len(events) = 7
    /\ StepSucceededAt(3, "plot") /\ events[3].city = "Madrid"
    /\ FetchFailedAt(4) /\ events[4].city = "London"
    /\ StepSucceededAt(7, "plot") /\ events[7].city = "Rio"

(***************************************************************************)
(* Properties of transform_weather_data.                                   *)
(***************************************************************************)
Days(json) == 1..Len(json.daily.time)

\* the observations dated in month m of year y
GroupOf(json, y, m) ==
    {i \in Days(json) :
        /\ IsCalendarDate(json.daily.time[i])
        /\ json.daily.time[i][1] = y
        /\ json.daily.time[i][2] = m}

RECURSIVE SumOver(_, _)
SumOver(S, f) ==
    IF S = {} THEN 0
    ELSE LET i == CHOOSE i \in S : TRUE IN f[i] + SumOver(S \ {i}, f)

MaxOver(S, f) == CHOOSE v \in {f[i] : i \in S} : \A i \in S : f[i] <= v

Months == 1..12
YearsSeen == {2019, 2020, 2021, 2022}

HasValue(table, m, y) ==
    /\ <<m, y>> \in DOMAIN table.cell
    /\ ~table.cell[<<m, y>>].nan

AllDatesValid(json) ==
    \A i \in Days(json) : IsCalendarDate(json.daily.time[i])

\* C3: on a non-empty list of observations with valid dates the call returns
\* three tables and, for every (year, month) that has observations, the
\* temperature cell times the group's size is the sum of the group's
\* temperatures (the cell is their mean), the precipitation cell is the sum
\* of the group's precipitations and the wind cell is the largest of the
\* group's wind speeds.
C3_CellsAreMeanSumMax ==
    (/\ tpc = "returned"
     /\ WellShaped(api_response_json)
     /\ Len(api_response_json.daily.time) > 0
     /\ AllDatesValid(api_response_json)) =>
        /\ transformed.raised = "no"
        /\ \A y \in YearsSeen, m \in Months :
              LET G == GroupOf(api_response_json, y, m)
                  d == api_response_json.daily
                  t == transformed.value
              IN  G # {} =>
                    /\ HasValue(t.temperature, m, y)
                    /\ t.temperature.cell[<<m, y>>].num * Cardinality(G)
                          = SumOver(G, d.temperature_2m_mean)
                              * t.temperature.cell[<<m, y>>].den
                    /\ t.precipitation.cell[<<m, y>>]
                          = Num(SumOver(G, d.precipitation_sum), 1)
                    /\ t.windspeed.cell[<<m, y>>]
                          = Num(MaxOver(G, d.wind_speed_10m_max), 1)

\* the two January 2020 days with 10 and 12, 2 and 0, 15 and 20 gave 11, 2, 20
C3_Witness ==
    /\ tpc = "returned"
    /\ api_response_json = ExampleJson
    /\ transformed.raised = "no"
    /\ transformed.value.temperature.cell[<<1, 2020>>] = Num(11, 1)
    /\ transformed.value.precipitation.cell[<<1, 2020>>] = Num(2, 1)
    /\ transformed.value.windspeed.cell[<<1, 2020>>] = Num(20, 1)

TablesOf(r) == {r.value.temperature, r.value.precipitation, r.value.windspeed}

\* C4: in each returned table a (month, year) cell holds a number exactly
\* when some observation is dated in that month of that year; every other
\* cell is absent or NaN.
C4_CellIffObservation ==
    (tpc = "returned" /\ transformed.raised = "no") =>
        \A table \in TablesOf(transformed) :
            \A y \in YearsSeen, m \in Months :
                HasValue(table, m, y) <=> GroupOf(api_response_json, y, m) # {}

\* January and March 2020 and January 2021: February 2020 is no row at all,
\* and March 2021 is a cell of the grid that holds NaN
C4_Witness ==
    /\ tpc = "returned"
    /\ transformed.raised = "no"
    /\ transformed.value.precipitation.index = <<1, 3>>
    /\ transformed.value.precipitation.columns = <<2020, 2021>>
    /\ transformed.value.precipitation.cell[<<3, 2021>>] = NaN
    /\ ~transformed.value.precipitation.cell[<<3, 2020>>].nan

\* C7: the call on the rows in any other order has the same outcome: the
\* same three tables, with the same index, columns and cells.
C7_OrderIndependent ==
    tpc = "reordered" => transformed_perm = transformed

\* three rows of two months were really reordered, and tables came back
C7_Witness ==
    /\ tpc = "reordered"
    /\ permuted_json # api_response_json
    /\ transformed.raised = "no"
    /\ Len(api_response_json.daily.time) = 3
    /\ Len(transformed.value.windspeed.index) = 2
    /\ \E c \in DOMAIN transformed.value.windspeed.cell :
          transformed.value.windspeed.cell[c] = Num(20, 1)

\* C8: when some date of the input is not a calendar date (a null included)
\* the call raises; it never returns tables.
C8_BadDateFailsTheCall ==
    (/\ tpc = "returned"
     /\ WellShaped(api_response_json)
     /\ ~AllDatesValid(api_response_json)) => transformed.raised # "no"

(***************************************************************************)
(* Properties of plot_variable.                                            *)
(***************************************************************************)
PositionLess(p, q) == p.num * q.den < q.num * p.den

LinesOf(y) == {k \in 1..Len(lines) : lines[k].label = y}

\* C10: one line per year column; of two years the earlier one sits strictly
\* lower on the ramp (position and colour index), whatever the order of the
\* columns; the earliest year sits at 0 and, when there are two years or
\* more, the latest at 1.
C10_OneLinePerYearMonotonicRamp ==
    ppc = "drawn" =>
        /\ Len(lines) = Len(data_columns)
        /\ \A y \in Range(data_columns) : Cardinality(LinesOf(y)) = 1
        /\ \A a, b \in 1..Len(lines) :
              lines[a].label < lines[b].label =>
                  /\ PositionLess(lines[a].position, lines[b].position)
                  /\ lines[a].color < lines[b].color
        /\ \A a \in 1..Len(lines) :
              /\ lines[a].label = SetMin(Range(data_columns)) =>
                    lines[a].position = Num(0, 1)
              /\ (Len(lines) > 1 /\ \A y \in Range(data_columns) : y <= lines[a].label)
                    => lines[a].position = Num(1, 1)

\* three year columns that were not in ascending order
C10_Witness ==
    /\ ppc = "drawn"
    /\ Len(data_columns) = 3
    /\ data_columns[1] > data_columns[2]
    /\ Len(lines) = 3

====
